---------------------------- MODULE Spec2Model ----------------------------
(***************************************************************************)
(* A model of the Bulgarian phishing-domain detector                       *)
(* (src/detection/bg-phishing-detector.py).                                *)
(*                                                                         *)
(* A Python str is modelled as a sequence of characters.  An ASCII         *)
(* character is the one-character string that holds it; a non-ASCII        *)
(* character is the five-character string "Uhhhh" of its code point, so    *)
(* that ord(c) < 128 is Len(c) = 1.  Chars("econt") is the str 'econt'.    *)
(***************************************************************************)
EXTENDS Integers, Sequences, FiniteSets, TLC

VARIABLES
    mode,        \* "engine": direct calls of the scoring engine; "scan": scan_domains;
                 \* "main": main() before it checks a domain or starts the scan
    pc,          \* position of the running call
    input,       \* engine: the str passed to the engine's functions;
                 \* main: args.check_domain, None when not given, else <<str>>
    result,      \* engine: what the functions returned for input;
                 \* main: what the single-domain check found
    manual,      \* MANUAL_CHECK_DOMAINS, the operator-edited list
    duration,    \* scan_domains' duration argument, None when not given
    expired,     \* scan: the wall clock is past start_time + duration
    visited,     \* scan: the elements of all_domains the for loop has drawn
    processed_domains, \* scan: the local set of that name
    findings_count,    \* scan: the local counter of that name
    feed,        \* the persisted feed (OUTPUT_FILE), a sequence of entries
    stats,       \* the persisted run statistics (STATS_FILE), None until saved
    scored,      \* scan: the strs passed to calculate_score
    score_calls, \* scan: the number of calls of calculate_score
    added,       \* scan: the strs this scan appended to the feed, in order
    suspicious,  \* scan: the strs logged as PHISHING DETECTED or [SUSPICIOUS]
    api_key,     \* fetch: whether URLSCAN_API_KEY is set
    query,       \* fetch: the index of the query the loop is at, 0 before it
    responses,   \* fetch: for each query left behind, what requests.get gave
    seen_domains,    \* fetch: the local set of that name
    analysis_file,   \* analyzer: the domains in --output-file, None if absent
    llm,         \* analyzer: the locals of a running main(), None between runs
    saved_earlier,   \* analyzer: the domains that earlier runs analyzed and saved
    runs         \* analyzer: the number of runs of main() started

fetchVars == <<api_key, query, responses, seen_domains>>

llmVars == <<analysis_file, llm, saved_earlier, runs>>

vars == <<mode, pc, input, result, manual, duration, expired, visited,
          processed_domains, findings_count, feed, stats, scored, score_calls,
          added, suspicious, fetchVars, llmVars>>

(***************************************************************************)
(* Strings                                                                 *)
(***************************************************************************)

\* The str whose characters are those of the TLA+ string s (ASCII only).
Chars(s) == [i \in 1..Len(s) |-> SubSeq(s, i, i)]

\* Python's None.
None == <<>>

NL == "\n"

\* ord(c) < 128
IsAscii(c) == Len(c) = 1

UpperAlpha == Chars("ABCDEFGHIJKLMNOPQRSTUVWXYZ")

LowerAlpha == Chars("abcdefghijklmnopqrstuvwxyz")

\* Non-ASCII upper-case letters of the modelled alphabet with their lower
\* case: Cyrillic capital IE, ES, O.
UpperOther == <<"U0415", "U0421", "U041E">>

LowerOther == <<"U0435", "U0441", "U043E">>

\* str.lower() on one character.
LowerChar(c) ==
    IF \E i \in 1..26 : UpperAlpha[i] = c
    THEN LowerAlpha[CHOOSE i \in 1..26 : UpperAlpha[i] = c]
    ELSE IF \E i \in 1..Len(UpperOther) : UpperOther[i] = c
    THEN LowerOther[CHOOSE i \in 1..Len(UpperOther) : UpperOther[i] = c]
    ELSE c

\* str.lower()
Lower(s) == [i \in 1..Len(s) |-> LowerChar(s[i])]

\* The characters str.strip() removes (those of the modelled alphabet).
Whitespace == {" ", NL}

RECURSIVE LStrip(_)
LStrip(s) ==
    IF s # <<>> /\ Head(s) \in Whitespace THEN LStrip(Tail(s)) ELSE s

RECURSIVE RStrip(_)
RStrip(s) ==
    IF s # <<>> /\ s[Len(s)] \in Whitespace
    THEN RStrip(SubSeq(s, 1, Len(s) - 1))
    ELSE s

\* str.strip()
Strip(s) == RStrip(LStrip(s))

\* s[i:i+len(p)] == p, for a 1-based i
MatchAt(s, p, i) ==
    /\ i >= 1
    /\ i + Len(p) - 1 <= Len(s)
    /\ SubSeq(s, i, i + Len(p) - 1) = p

\* s.startswith(p)
StartsWith(s, p) == MatchAt(s, p, 1)

\* s.endswith(p)
EndsWith(s, p) == MatchAt(s, p, Len(s) - Len(p) + 1)

\* p in s
Contains(s, p) == \E i \in 1..(Len(s) - Len(p) + 1) : MatchAt(s, p, i)

\* s.count(c) for a single character c
CountChar(s, c) == Cardinality({i \in 1..Len(s) : s[i] = c})

RECURSIVE SplitFrom(_, _, _, _, _)
SplitFrom(s, seps, i, cur, acc) ==
    IF i > Len(s) THEN Append(acc, cur)
    ELSE IF s[i] \in seps
    THEN SplitFrom(s, seps, i + 1, <<>>, Append(acc, cur))
    ELSE SplitFrom(s, seps, i + 1, Append(cur, s[i]), acc)

\* re.split on a character class, and str.split on one character: the
\* list of parts, empty parts included.
Split(s, seps) == SplitFrom(s, seps, 1, <<>>, <<>>)

\* What a `for x in seq: if Hit(x): <body>; break` loop runs its body on:
\* the first element that satisfies Hit, if any.
FirstHit(seq, Hit(_)) ==
    LET hits == SelectSeq(seq, Hit)
    IN  IF hits = <<>> THEN <<>> ELSE <<Head(hits)>>

Range(seq) == {seq[i] : i \in 1..Len(seq)}

Min2(a, b) == IF a <= b THEN a ELSE b

Max2(a, b) == IF a >= b THEN a ELSE b

Abs(n) == IF n < 0 THEN -n ELSE n

RECURSIVE SumSeq(_)
SumSeq(seq) == IF seq = <<>> THEN 0 ELSE Head(seq) + SumSeq(Tail(seq))

(***************************************************************************)
(* Configuration (lines 31-167)                                            *)
(***************************************************************************)

SCORE_THRESHOLD == 70

WHITELISTED_DOMAINS == <<
    Chars("econt.com"), Chars("econt.bg"), Chars("speedy.bg"),
    Chars("intime.bg"), Chars("interlogistica.bg"), Chars("olx.bg"),
    Chars("bgpost.bg"), Chars("bulgariapost.bg"), Chars("samedaybg.com"),
    Chars("boxnow.bg"), Chars("cityexpress.bg"), Chars("expressone.bg"),
    Chars("sameday.bg"), Chars("evropat.bg"), Chars("dhl.bg"),
    Chars("easypay.bg"), Chars("epay.bg"), Chars("borica.bg"),
    Chars("fastpay.bg") >>

BRAND_KEYWORDS == <<
    Chars("econt"), Chars("speedy"), Chars("bulgariapost"), Chars("bgpost"),
    Chars("bg-post"), Chars("olx"), Chars("dhl"), Chars("sameday"),
    Chars("samedaybg"), Chars("evropat"), Chars("boxnow"), Chars("boxnowbg"),
    Chars("cityexpress"), Chars("cityexpressbg"), Chars("expressone"),
    Chars("expressonebg"), Chars("intime"), Chars("interlogistica"),
    Chars("easypay"), Chars("epay"), Chars("borica"), Chars("fastpay") >>

TRANSACTION_KEYWORDS == <<
    Chars("tracking"), Chars("delivery"), Chars("shipment"), Chars("parcel"),
    Chars("payment"), Chars("secure-pay"), Chars("pay-now"), Chars("invoice"),
    Chars("confirm"), Chars("verify"), Chars("account"), Chars("login"),
    Chars("update"), Chars("suspended"), Chars("tax"), Chars("fee"),
    Chars("customer-center"), Chars("klient"), Chars("pratka"),
    Chars("dostavka"), Chars("usluga") >>

GEO_INDICATORS == << Chars(".bg"), Chars("bulgaria"), Chars("bg-"), Chars("-bg") >>

SUSPICIOUS_TLDS == <<
    Chars(".cfd"), Chars(".tk"), Chars(".ml"), Chars(".ga"), Chars(".cf"),
    Chars(".gq"), Chars(".top"), Chars(".xyz"), Chars(".club"),
    Chars(".online"), Chars(".site"), Chars(".space"), Chars(".click"),
    Chars(".link"), Chars(".live"), Chars(".icu"), Chars(".buzz"),
    Chars(".cam"), Chars(".rest"), Chars(".store"), Chars(".tech"),
    Chars(".website"), Chars(".world"), Chars(".pw"), Chars(".cc"),
    Chars(".sbs") >>

FREE_HOSTING_SUFFIXES == <<
    Chars(".web.app"), Chars(".firebaseapp.com"), Chars(".herokuapp.com"),
    Chars(".pages.dev"), Chars(".netlify.app"), Chars(".vercel.app"),
    Chars(".onrender.com"), Chars(".render.com"), Chars(".fly.dev"),
    Chars(".surge.sh"), Chars(".gitlab.io"), Chars(".github.io"),
    Chars(".repl.co"), Chars(".replit.dev"), Chars(".replit.app"),
    Chars(".glitch.me"), Chars(".cyclic.app"), Chars(".railway.app"),
    Chars(".deta.dev"), Chars(".azurestaticapps.net"),
    Chars(".amplifyapp.com"), Chars(".cloudflare.com") >>

TARGET_SUFFIXES == FREE_HOSTING_SUFFIXES \o SUSPICIOUS_TLDS

INFRASTRUCTURE_PATTERNS == <<
    Chars(".postgres.render.com"), Chars(".redis.render.com"),
    Chars(".internal.render.com"), Chars("replica-"),
    Chars(".rds.amazonaws.com"), Chars(".elb.amazonaws.com"),
    Chars(".elasticache.amazonaws.com"), Chars(".drive.amazonaws.com"),
    Chars("kms.amazonaws.com"), Chars("s3.amazonaws.com"),
    Chars("s3-deprecated"), Chars("content-eu.drive"),
    Chars("content-jp.drive"), Chars(".database.windows.net"),
    Chars(".redis.cache.windows.net"), Chars(".workers.dev"),
    Chars("--deploy-preview-"), Chars("preview.vercel.app"),
    Chars("bgptools") >>

\* HOMOGLYPH_MAP in dict order: <<latin letter, its look-alikes>>.
HOMOGLYPH_MAP == <<
    <<"a", <<"U0430", "U1EA1", "U0105", "U03AC", "U03B1">> >>,
    <<"c", <<"U0441", "U03F2", "U0107", "U010B">> >>,
    <<"e", <<"U0435", "U0117", "U0119", "U0451", "U03AD", "U03B5">> >>,
    <<"i", <<"U0456", "U0131", "U00ED", "U00EC", "U00EF", "U03B9">> >>,
    <<"o", <<"U043E", "U03BF", "U1ECD", "U00F3", "U00F2", "0">> >>,
    <<"p", <<"U0440", "U03C1", "U00FE">> >>,
    <<"s", <<"U0455", "U015B", "U015F">> >>,
    <<"t", <<"U0442", "U03C4">> >>,
    <<"u", <<"U03C5", "U00FA", "U00F9">> >>,
    <<"x", <<"U0445", "U03C7">> >>,
    <<"y", <<"U0443", "U04AF", "U00FD">> >> >>

(***************************************************************************)
(* The scoring engine's detectors (lines 176-428)                          *)
(***************************************************************************)

\* domain.lower() with one leading 'www.' removed: the first lines of
\* is_whitelisted, contains_brand_impersonation, detect_homoglyphs,
\* detect_typosquatting and calculate_score.
Normalize(domain) ==
    LET domain_lower == Lower(domain)
    IN  IF StartsWith(domain_lower, Chars("www."))
        THEN SubSeq(domain_lower, 5, Len(domain_lower))
        ELSE domain_lower

\* is_whitelisted without the subdomain test.
is_whitelistedExactOnly(domain) ==
    LET domain_lower == Normalize(domain)
    IN  \E k \in 1..Len(WHITELISTED_DOMAINS) :
            domain_lower = WHITELISTED_DOMAINS[k]

is_whitelisted(domain) ==
    LET domain_lower == Normalize(domain)
    IN  \E k \in 1..Len(WHITELISTED_DOMAINS) :
            \/ domain_lower = WHITELISTED_DOMAINS[k]
            \/ EndsWith(domain_lower, <<".">> \o WHITELISTED_DOMAINS[k])

\* The nine patterns of contains_brand_impersonation, as <<left, right>>:
\* left is "^" or the character before the brand, right is "$" or the
\* character after it.
BrandPatterns == <<
    <<"^", ".">>, <<"^", "-">>, <<"^", "$">>,
    <<".", ".">>, <<".", "-">>, <<".", "$">>,
    <<"-", ".">>, <<"-", "-">>, <<"-", "$">> >>

\* Python's `$` without re.MULTILINE, at the gap before the 1-based position
\* j: the end of the string, or just before a newline that ends the string.
DollarAt(s, j) == j = Len(s) + 1 \/ (j = Len(s) /\ s[j] = NL)

\* re.search(left + brand + right, s) for one pattern of BrandPatterns
SearchBrandPattern(pat, brand, s) ==
    \E i \in 1..(Len(s) - Len(brand) + 1) :
        /\ MatchAt(s, brand, i)
        /\ IF pat[1] = "^" THEN i = 1 ELSE (i > 1 /\ s[i - 1] = pat[1])
        /\ LET j == i + Len(brand)
           IN  IF pat[2] = "$" THEN DollarAt(s, j)
               ELSE (j <= Len(s) /\ s[j] = pat[2])

\* The inner loop of contains_brand_impersonation for one brand: whether
\* the brand is appended (once: the loop breaks at the first pattern).
BrandMatches(brand, check_domain) ==
    \E k \in 1..Len(BrandPatterns) :
        SearchBrandPattern(BrandPatterns[k], brand, check_domain)

\* contains_brand_impersonation(domain)[1]: matched_brands
contains_brand_impersonation(domain) ==
    LET check_domain == Normalize(domain)
        Hit(brand) == BrandMatches(brand, check_domain)
    IN  SelectSeq(BRAND_KEYWORDS, Hit)

contains_courier_keyword(domain) == contains_brand_impersonation(domain)

\* normalize_homoglyphs' loop body with a non-ASCII character that no
\* entry lists replaced by '?'.
NormalizeCharAsciiOnly(char) ==
    IF \E k \in 1..Len(HOMOGLYPH_MAP) :
           \E m \in 1..Len(HOMOGLYPH_MAP[k][2]) : HOMOGLYPH_MAP[k][2][m] = char
    THEN HOMOGLYPH_MAP[CHOOSE k \in 1..Len(HOMOGLYPH_MAP) :
             /\ \E m \in 1..Len(HOMOGLYPH_MAP[k][2]) :
                    HOMOGLYPH_MAP[k][2][m] = char
             /\ \A h \in 1..(k - 1) :
                    \A m \in 1..Len(HOMOGLYPH_MAP[h][2]) :
                        HOMOGLYPH_MAP[h][2][m] # char][1]
    ELSE IF char = "0" THEN "o"
    ELSE IF IsAscii(char) THEN char ELSE "?"

\* The Latin letter of the first HOMOGLYPH_MAP entry that lists char, else
\* char itself ('0' is listed under 'o').
NormalizeChar(char) ==
    LET hits == {k \in 1..Len(HOMOGLYPH_MAP) :
                    \E m \in 1..Len(HOMOGLYPH_MAP[k][2]) :
                        HOMOGLYPH_MAP[k][2][m] = char}
    IN  IF hits # {}
        THEN HOMOGLYPH_MAP[CHOOSE k \in hits : \A h \in hits : k <= h][1]
        ELSE IF char = "0" THEN "o" ELSE char

normalize_homoglyphs(text) == [i \in 1..Len(text) |-> NormalizeChar(text[i])]

\* part.replace('0', 'o')
ReplaceZero(part) == [i \in 1..Len(part) |-> IF part[i] = "0" THEN "o" ELSE part[i]]

\* Whether the body of detect_homoglyphs' inner loop appends part for brand
\* (and breaks).
HomoglyphHit(part, brand) ==
    /\ ~(Len(part) < 3 \/ Abs(Len(part) - Len(brand)) > 2)
    /\ \/ /\ \E i \in 1..Len(part) : ~IsAscii(part[i])
          /\ LET normalized == normalize_homoglyphs(part)
             IN  \/ normalized = brand
                 \/ (Len(normalized) >= 4 /\ Contains(brand, normalized))
       \/ /\ \E i \in 1..Len(part) : part[i] = "0"
          /\ ReplaceZero(part) = brand

\* One pass of detect_homoglyphs' inner loop `for part in parts`: what it
\* appends for brand (the loop breaks after the first append).
HomoglyphsOfBrand(parts, brand) ==
    LET Hit(part) == HomoglyphHit(part, brand)
    IN  FirstHit(parts, Hit)

RECURSIVE HomoglyphLoop(_, _, _)
HomoglyphLoop(parts, brands, k) ==
    IF k > Len(brands) THEN <<>>
    ELSE HomoglyphsOfBrand(parts, brands[k]) \o HomoglyphLoop(parts, brands, k + 1)

\* detect_homoglyphs(domain, brands)[1]: homoglyphs_found
detect_homoglyphs(domain, brands) ==
    HomoglyphLoop(Split(Normalize(domain), {".", "-"}), brands, 1)

\* min() without the substitutions.
Min3NoSubstitution(a, b, c) == Min2(a, b)

Min3(a, b, c) == Min2(a, Min2(b, c))

\* The inner loop of levenshtein_distance: current_row, filled from column j.
RECURSIVE LevCurrentRow(_, _, _, _, _)
LevCurrentRow(current_row, previous_row, c1, s2, j) ==
    IF j > Len(s2) THEN current_row
    ELSE LET insertions == previous_row[j + 1] + 1
             deletions == current_row[j] + 1
             substitutions == previous_row[j] + (IF c1 # s2[j] THEN 1 ELSE 0)
         IN  LevCurrentRow(
                 Append(current_row, Min3(insertions, deletions, substitutions)),
                 previous_row, c1, s2, j + 1)

\* The outer loop of levenshtein_distance: the last row, from row i.
RECURSIVE LevRows(_, _, _, _)
LevRows(previous_row, s1, s2, i) ==
    IF i > Len(s1) THEN previous_row
    ELSE LET current_row == LevCurrentRow(<<i>>, previous_row, s1[i], s2, 1)
         IN  \* the test makes TLC compute the row before the next one
             IF current_row = <<>> THEN current_row
             ELSE LevRows(current_row, s1, s2, i + 1)

RECURSIVE levenshtein_distance(_, _)
levenshtein_distance(s1, s2) ==
    IF Len(s1) < Len(s2) THEN levenshtein_distance(s2, s1)
    ELSE IF Len(s2) = 0 THEN Len(s1)
    ELSE LET last_row == LevRows([j \in 1..(Len(s2) + 1) |-> j - 1], s1, s2, 1)
         IN  last_row[Len(last_row)]

classify_typo_type(original, typo) ==
    IF Len(typo) < Len(original) THEN "missing_char"
    ELSE IF Len(typo) > Len(original) THEN "extra_char"
    ELSE LET differences ==
                 Cardinality({i \in 1..Len(original) : original[i] # typo[i]})
         IN  IF /\ differences = 2
                /\ \E i \in 1..(Len(original) - 1) :
                       original[i] = typo[i + 1] /\ original[i + 1] = typo[i]
             THEN "swapped_chars"
             ELSE "substitution"


\* detect_typosquatting's guards with brands of length 3 let through.
TypoHitShortBrand(part, brand) ==
    /\ ~(Len(brand) < 3)
    /\ ~(Len(part) < 3)
    /\ LET distance == levenshtein_distance(part, brand)
           length_diff == Abs(Len(part) - Len(brand))
       IN  /\ 0 < distance /\ distance <= 2 /\ length_diff <= 2
           /\ part # brand

\* The guards of detect_typosquatting on one (part, brand) pair: whether a
\* typo is appended for it.
TypoHit(part, brand) ==
    /\ ~(Len(brand) < 4)
    /\ ~(Len(part) < 3)
    /\ LET distance == levenshtein_distance(part, brand)
           length_diff == Abs(Len(part) - Len(brand))
       IN  /\ 0 < distance /\ distance <= 2 /\ length_diff <= 2
           /\ part # brand

\* The typo appended for a pair that TypoHit admits.
TypoEntry(part, brand) ==
    [brand |-> brand, typo |-> part,
     distance |-> levenshtein_distance(part, brand),
     type |-> classify_typo_type(brand, part)]

\* The inner loop of detect_typosquatting, `for part in parts`, from part p.
RECURSIVE TypoParts(_, _, _)
TypoParts(parts, brand, p) ==
    IF p > Len(parts) THEN <<>>
    ELSE (IF TypoHit(parts[p], brand) THEN <<TypoEntry(parts[p], brand)>> ELSE <<>>)
         \o TypoParts(parts, brand, p + 1)

RECURSIVE TypoLoop(_, _, _)
TypoLoop(parts, brands, k) ==
    IF k > Len(brands) THEN <<>>
    ELSE TypoParts(parts, brands[k], 1) \o TypoLoop(parts, brands, k + 1)

\* detect_typosquatting(domain, brands)[1]: detected_typos
detect_typosquatting(domain, brands) ==
    TypoLoop(Split(Normalize(domain), {".", "-"}), brands, 1)

(***************************************************************************)
(* calculate_score (lines 433-603)                                         *)
(***************************************************************************)

\* \d, on the modelled alphabet
IsDigit(c) == c \in {"0", "1", "2", "3", "4", "5", "6", "7", "8", "9"}

\* [a-z]
IsLowerLetter(c) == c \in Range(LowerAlpha)

\* [bcdfghjklmnpqrstvwxyz]
IsConsonant(c) == c \in Range(Chars("bcdfghjklmnpqrstvwxyz"))

\* The length of the longest run of characters satisfying In that starts
\* at position i: what a greedy `[...]+` consumes there.
RunLength(s, i, In(_)) ==
    IF i > Len(s) THEN 0
    ELSE CHOOSE n \in 0..(Len(s) - i + 1) :
            /\ \A k \in i..(i + n - 1) : In(s[k])
            /\ (i + n > Len(s) \/ ~In(s[i + n]))

\* Whether \d{min,}\. matches at position i.
DigitsThenDotAt(s, i, min) ==
    \E n \in min..(Len(s) - i) :
        /\ \A k \in i..(i + n - 1) : IsDigit(s[k])
        /\ s[i + n] = "."

\* re.search(r'-\d{3,}\.', s) or re.search(r'\d{4,}\.', s)
NumericSuffix(s) ==
    \/ \E i \in 1..Len(s) : s[i] = "-" /\ DigitsThenDotAt(s, i + 1, 3)
    \/ \E i \in 1..Len(s) : DigitsThenDotAt(s, i, 4)

\* len(re.findall(r'[bcdfghjklmnpqrstvwxyz]{3,}', s)), scanning from i
RECURSIVE ConsonantClusters(_, _)
ConsonantClusters(s, i) ==
    IF i > Len(s) THEN 0
    ELSE LET n == RunLength(s, i, IsConsonant)
         IN  IF n >= 3 THEN 1 + ConsonantClusters(s, i + n)
             ELSE ConsonantClusters(s, i + 1)

\* The length of the match of [a-z]+\d+[a-z]+|\d+[a-z]+\d+ at position i,
\* 0 when there is none.  Each greedy run is followed by a character outside
\* its class, so no shorter run lets the rest match.
MixedMatchAt(s, i) ==
    LET l1 == RunLength(s, i, IsLowerLetter)
        d1 == RunLength(s, i + l1, IsDigit)
        l2 == RunLength(s, i + l1 + d1, IsLowerLetter)
        e1 == RunLength(s, i, IsDigit)
        m1 == RunLength(s, i + e1, IsLowerLetter)
        e2 == RunLength(s, i + e1 + m1, IsDigit)
    IN  IF l1 >= 1 /\ d1 >= 1 /\ l2 >= 1 THEN l1 + d1 + l2
        ELSE IF e1 >= 1 /\ m1 >= 1 /\ e2 >= 1 THEN e1 + m1 + e2
        ELSE 0

\* len(re.findall(r'[a-z]+\d+[a-z]+|\d+[a-z]+\d+', s)), scanning from i
RECURSIVE MixedAlphanum(_, _)
MixedAlphanum(s, i) ==
    IF i > Len(s) THEN 0
    ELSE LET n == MixedMatchAt(s, i)
         IN  IF n > 0 THEN 1 + MixedAlphanum(s, i + n)
             ELSE MixedAlphanum(s, i + 1)

\* Step 11: the entropy heuristic on the first dot-separated label.
HighEntropy(domain_lower) ==
    LET domain_name == Split(domain_lower, {"."})[1]
    IN  /\ Len(domain_name) > 10
        /\ \/ ConsonantClusters(domain_name, 1) >= 2
           \/ MixedAlphanum(domain_name, 1) >= 2

\* The alternation of the .bg-XX.TLD pattern (line 540).
AbuseTlds == <<
    Chars("cfd"), Chars("tk"), Chars("ml"), Chars("ga"), Chars("cf"),
    Chars("gq"), Chars("xyz"), Chars("online"), Chars("site"),
    Chars("click"), Chars("icu") >>

\* re.search(r'\.bg-[a-z]{2,4}\.(cfd|tk|...|icu)', s)
BgTldAbuse(s) ==
    \E i \in 1..Len(s) :
        /\ MatchAt(s, Chars(".bg-"), i)
        /\ \E n \in 2..4 :
            /\ i + 4 + n <= Len(s)
            /\ \A k \in (i + 4)..(i + 3 + n) : IsLowerLetter(s[k])
            /\ s[i + 4 + n] = "."
            /\ \E t \in 1..Len(AbuseTlds) : MatchAt(s, AbuseTlds[t], i + 5 + n)

\* direct_impersonation_patterns (lines 553-566): <<a, b>> is the regular
\* expression a-?b.
direct_impersonation_patterns == <<
    <<Chars("econt"), Chars("bg")>>, <<Chars("speedy"), Chars("bg")>>,
    <<Chars("bgpost"), Chars("bg")>>, <<Chars("olx"), Chars("bg")>>,
    <<Chars("sameday"), Chars("bg")>>, <<Chars("easypay"), Chars("bg")>>,
    <<Chars("epay"), Chars("bg")>>, <<Chars("borica"), Chars("bg")>>,
    <<Chars("bg"), Chars("econt")>>, <<Chars("bg"), Chars("speedy")>>,
    <<Chars("bg"), Chars("post")>>, <<Chars("bg"), Chars("olx")>> >>

\* re.search(a + '-?' + b, s)
SearchDirect(pattern, s) ==
    \/ Contains(s, pattern[1] \o pattern[2])
    \/ Contains(s, pattern[1] \o <<"-">> \o pattern[2])

\* Step 4's loop: the suffixes its body runs on (it breaks after the first).
FreeHostingLoop(domain_lower) ==
    LET Hit(suffix) == EndsWith(domain_lower, suffix)
    IN  FirstHit(FREE_HOSTING_SUFFIXES, Hit)

\* Step 5's loop: the TLDs its body runs on.
SuspiciousTldLoop(domain_lower) ==
    LET Hit(tld) == EndsWith(domain_lower, tld)
    IN  FirstHit(SUSPICIOUS_TLDS, Hit)


\* Step 6's loop without its break: the body runs on every indicator found.
GeoLoopNoBreak(domain_lower) ==
    LET Hit(geo) == Contains(domain_lower, geo)
    IN  SelectSeq(GEO_INDICATORS, Hit)

\* Step 6's loop: the geo indicators its body runs on.
GeoLoop(domain_lower) ==
    LET Hit(geo) == Contains(domain_lower, geo)
    IN  FirstHit(GEO_INDICATORS, Hit)

\* Step 7's loop: the transaction keywords its body runs on.
TransactionLoop(domain_lower) ==
    LET Hit(keyword) == Contains(domain_lower, keyword)
    IN  FirstHit(TRANSACTION_KEYWORDS, Hit)

\* The direct-impersonation loop without its break: the body runs on every
\* pattern found.
DirectLoopNoBreak(domain_lower) ==
    LET Hit(pattern) == SearchDirect(pattern, domain_lower)
    IN  SelectSeq(direct_impersonation_patterns, Hit)

\* The direct-impersonation loop (lines 568-573): the patterns its body
\* runs on.
DirectLoop(domain_lower) ==
    LET Hit(pattern) == SearchDirect(pattern, domain_lower)
    IN  FirstHit(direct_impersonation_patterns, Hit)


\* apply_penalty that forgets the Bulgarian context.
ApplyPenaltyNoContext(has_signal, has_bg_context, direct_impersonation) ==
    has_signal /\ ~direct_impersonation

\* apply_penalty that forgets the brand-derived signals.
ApplyPenaltyNoSignal(has_signal, has_bg_context, direct_impersonation) ==
    ~has_bg_context /\ ~direct_impersonation

\* Lines 590-595: apply_penalty
ApplyPenalty(has_signal, has_bg_context, direct_impersonation) ==
    has_signal /\ ~has_bg_context /\ ~direct_impersonation


\* Line 601 without its upper bound.
ClampLowOnly(score) == Max2(score, 0)

\* Line 601
Clamp(score) == Min2(Max2(score, 0), 100)

\* One `score += delta` (or `score -= 20`), for the signal that caused it.
Add(signal, delta) == [signal |-> signal, delta |-> delta]

\* n executions of a loop body that adds delta
Adds(signal, delta, n) == [i \in 1..n |-> Add(signal, delta)]

\* The additions of one `if cond: score += delta`
AddIf(cond, signal, delta) == IF cond THEN <<Add(signal, delta)>> ELSE <<>>

LastOrNone(seq) == IF seq = <<>> THEN None ELSE seq[Len(seq)]

\* calculate_score(domain): [score, details], and with them adds, every
\* change the call made to its local `score`, in order, and raw, the value
\* of `score` before line 601 clamps it.
calculate_score(domain) ==
    LET domain_lower == Normalize(domain)
        matched_brands == contains_brand_impersonation(domain)
        has_brand == matched_brands # <<>>
        homoglyphs_list == detect_homoglyphs(domain, BRAND_KEYWORDS)
        has_homoglyphs == homoglyphs_list # <<>>
        typos_list == detect_typosquatting(domain, BRAND_KEYWORDS)
        has_typos == typos_list # <<>>
        hosting == FreeHostingLoop(domain_lower)
        tlds == SuspiciousTldLoop(domain_lower)
        geos == GeoLoop(domain_lower)
        keywords == TransactionLoop(domain_lower)
        multiple_hyphens == CountChar(domain_lower, "-") >= 2
        numeric_suffix == NumericSuffix(domain_lower)
        subdomain_stacking == Len(Split(domain_lower, {"."})) >= 4
        high_entropy == HighEntropy(domain_lower)
        bg_tld_abuse == BgTldAbuse(domain_lower)
        context6 == geos # <<>>
        context_abuse == context6 \/ bg_tld_abuse
        context_weak ==
            \/ context_abuse
            \/ Contains(domain_lower, Chars("bg"))
            \/ Contains(domain_lower, Chars("bulgaria"))
        directs == DirectLoop(domain_lower)
        direct_impersonation == directs # <<>>
        has_bg_context == context_weak \/ direct_impersonation
        apply_penalty ==
            ApplyPenalty(has_brand \/ has_homoglyphs \/ has_typos,
                         has_bg_context, direct_impersonation)
        adds ==
            AddIf(has_brand, "brand", 40)
            \o AddIf(has_homoglyphs, "homoglyph", 30)
            \o AddIf(has_typos, "typosquat", 25)
            \o Adds("free_hosting", 25, Len(hosting))
            \o Adds("suspicious_tld", 20, Len(tlds))
            \o Adds("geo", 15, Len(geos))
            \o Adds("transaction", 10, Len(keywords))
            \o AddIf(multiple_hyphens, "multiple_hyphens", 10)
            \o AddIf(numeric_suffix, "numeric_suffix", 10)
            \o AddIf(subdomain_stacking, "subdomain_stacking", 10)
            \o AddIf(high_entropy, "high_entropy", 10)
            \o AddIf(bg_tld_abuse, "bg_tld_abuse", 10)
            \o Adds("direct_impersonation", 15, Len(directs))
            \o AddIf(apply_penalty, "penalty", -20)
        raw == SumSeq([i \in 1..Len(adds) |-> adds[i].delta])
    IN  [score |-> Clamp(raw),
         raw |-> raw,
         adds |-> adds,
         has_bg_context |-> has_bg_context,
         details |->
            [brand_keywords |-> matched_brands,
             transaction_keywords |-> keywords,
             geo_indicators |-> geos,
             suspicious_tld |-> LastOrNone(tlds),
             free_hosting |-> LastOrNone(hosting),
             multiple_hyphens |-> multiple_hyphens,
             numeric_suffix |-> numeric_suffix,
             subdomain_stacking |-> subdomain_stacking,
             high_entropy |-> high_entropy,
             homoglyphs_detected |-> has_homoglyphs,
             homoglyphs_used |-> homoglyphs_list,
             typosquatting_detected |-> has_typos,
             typosquatting_details |-> typos_list,
             bg_tld_abuse |-> bg_tld_abuse,
             direct_impersonation |-> direct_impersonation,
             non_bg_context_penalty |-> apply_penalty]]

\* is_infrastructure_domain (lines 608-611)
\* is_infrastructure_domain without the lower-casing.
is_infrastructure_domainNoLower(domain) ==
    \E k \in 1..Len(INFRASTRUCTURE_PATTERNS) :
        Contains(domain, INFRASTRUCTURE_PATTERNS[k])

is_infrastructure_domain(domain) ==
    LET domain_lower == Lower(domain)
    IN  \E k \in 1..Len(INFRASTRUCTURE_PATTERNS) :
            Contains(domain_lower, INFRASTRUCTURE_PATTERNS[k])

(***************************************************************************)
(* Direct calls of the engine: the inputs                                  *)
(***************************************************************************)

\* 'econt' spelled with Cyrillic ie, es, o
CyrillicEcont == <<"U0435", "U0441", "U043E", "n", "t">>

\* 'sameday' with a Cyrillic a
CyrillicSameday == <<"s", "U0430", "m", "e", "d", "a", "y">>

\* Domains taken one by one: the examples of the documentation, and strings
\* that reach each branch of calculate_score.
ExampleDomains == {
    Chars("econt-bg.tk"), Chars("speedy.bg-pv.cfd"), Chars("spedy.bg-pv.cfd"),
    Chars("gomarketplacecontent.cfd"), Chars("yandex.speedyz.top"),
    Chars("content.example.cfd"), Chars("speedy-bg.cfd"),
    Chars("ec0nt-pay.tk"), CyrillicEcont \o Chars(".cfd"),
    Chars("speedytest.com"), Chars("econtbg.cfd"),
    Chars("speedy-bulgaria.com"), Chars("econt-bg-login.tk"),
    Chars("bg-econt-login-verify.speedy-bg.bg-pv.cfd"),
    Chars("olx.bg-shop.online"), Chars("bg-post-1234.pages.dev"),
    Chars("sppedy-tracking-0001.web.app"), Chars("a1b2c3d4e5f6.xyz"),
    Chars("xkcdqwrtplmn.top"), Chars("pay.secure.login.example.com"),
    CyrillicSameday \o Chars(".tk"), Chars("spedy.spedy.top"),
    Chars("ec0nt-") \o CyrillicEcont \o Chars(".tk"),
    Chars("speexz.tk"), Chars("spedey.icu"), Chars("econt.bg"),
    Chars("www.speedy.bg"), Chars("track.econt.com"), Chars("noecont.com"),
    Chars("olx"), Chars("dhl-express.cc"), Chars("epzy.tk"),
    Chars("s3.amazonaws.com.econt-bg.tk"),
    Chars("econt.ec0nt-login-1234.x.web.app"),
    <<>>, Chars("*"), Chars("*.econt-bg.tk"), Chars("www."),
    <<"U0436", "U4E2D", "U00DF">>, Chars("-"), Chars("..") }

\* Upper-case, padded and newline-ended spellings.
SpelledDomains == {
    Chars("ECONT-BG.TK"), Chars("WWW.Speedy.BG"), Chars("Www.Econt-Bg.Tk"),
    Chars("www.www.econt.bg"), <<"U0415", "U0421", "U041E">> \o Chars("NT.cfd"),
    Chars(" econt-bg.tk "), Chars("speedy") \o <<NL>>,
    Chars("shop.econt") \o <<NL>>, Chars("speedy") \o <<NL, NL>>,
    Chars("econt.bg") \o <<NL>> }

FirstLabels == {
    Chars("econt"), Chars("speedy"), Chars("spedy"), Chars("ec0nt"),
    Chars("content"), Chars("olx"), Chars("login"), CyrillicEcont }

Joiners == { <<".">>, <<"-">>, <<>> }

SecondLabels == { Chars("bg"), Chars("pay"), Chars("bg-pv"), Chars("tracking-0001") }

Endings == { Chars(".tk"), Chars(".com"), Chars(".pages.dev"), <<>> }

\* first label, joiner, second label, ending
BuiltDomains ==
    { a \o j \o b \o e : a \in FirstLabels, j \in Joiners,
                         b \in SecondLabels, e \in Endings }

\* Labels that classify_typo_type compares with the brands: letters
\* swapped, dropped, added and replaced.
TypoLabels == {
    Chars("spedey"), Chars("speexz"), Chars("speedx"), Chars("xpeedz"),
    Chars("psxedy"), Chars("spedy"), Chars("speeedy"), Chars("speedy"),
    Chars("ecnot"), Chars("ecozz"), Chars("ceont"), Chars("olx"),
    Chars("boxnom"), Chars("obxnow"), <<>> }

\* The longest strings levenshtein_distance is called on, one by one.
MaxLevLen == 3

LevAlphabet == {"a", "b"}

\* The strings over LevAlphabet of length n or less.
RECURSIVE StringsUpTo(_)
StringsUpTo(n) ==
    IF n = 0 THEN {<<>>}
    ELSE StringsUpTo(n - 1) \cup
         {Append(s, c) : s \in StringsUpTo(n - 1), c \in LevAlphabet}

LevStrings == StringsUpTo(MaxLevLen)

EngineInputs ==
    ExampleDomains \cup SpelledDomains \cup BuiltDomains \cup TypoLabels
    \cup LevStrings

\* The brand lists detect_homoglyphs and detect_typosquatting are called
\* with: calculate_score passes BRAND_KEYWORDS.
BrandLists == { <<Chars("speedy")>>, <<Chars("econt")>>,
                <<Chars("olx"), Chars("epay"), Chars("econt")>>,
                <<Chars("sameday"), Chars("samedaybg")>> }

(***************************************************************************)
(* Direct calls of the engine: the specification                           *)
(***************************************************************************)

\* fetch_urlscan_targeted is not running.
NoFetch ==
    /\ api_key = FALSE
    /\ query = 0
    /\ responses = <<>>
    /\ seen_domains = {}

\* The analyzer has not run and has left no file.
NoAnalyzer ==
    /\ analysis_file = None
    /\ llm = None
    /\ saved_earlier = {}
    /\ runs = 0

InitEngine ==
    /\ mode = "engine"
    /\ pc = "call"
    /\ input \in EngineInputs
    /\ result = None
    /\ manual = <<>>
    /\ duration = None
    /\ expired = FALSE
    /\ visited = {}
    /\ processed_domains = {}
    /\ findings_count = 0
    /\ feed = <<>>
    /\ stats = None
    /\ scored = {}
    /\ score_calls = 0
    /\ added = <<>>
    /\ suspicious = {}
    /\ NoFetch
    /\ NoAnalyzer

Returns(fn, brands, out) ==
    /\ mode = "engine"
    /\ pc = "call"
    /\ pc' = "returned"
    /\ result' = [fn |-> fn, brands |-> brands, out |-> out]
    /\ UNCHANGED <<mode, input, manual, duration, expired, visited,
                   processed_domains, findings_count, feed, stats, scored,
                   score_calls, added, suspicious>>
    /\ UNCHANGED <<fetchVars, llmVars>>

CallCalculateScore ==
    Returns("calculate_score", BRAND_KEYWORDS, calculate_score(input))

CallContainsBrandImpersonation ==
    Returns("contains_brand_impersonation", BRAND_KEYWORDS,
            contains_brand_impersonation(input))

CallDetectHomoglyphs ==
    \E brands \in BrandLists :
        Returns("detect_homoglyphs", brands, detect_homoglyphs(input, brands))

CallDetectTyposquatting ==
    \E brands \in BrandLists :
        Returns("detect_typosquatting", brands, detect_typosquatting(input, brands))

CallIsWhitelisted ==
    Returns("is_whitelisted", <<>>, is_whitelisted(input))

\* classify_typo_type(original, typo) with a brand and the input; result
\* keeps the other argument in brands.
CallClassifyTypoType ==
    /\ input \in TypoLabels
    /\ \E k \in 1..Len(BRAND_KEYWORDS) :
           Returns("classify_typo_type", <<BRAND_KEYWORDS[k]>>,
                   classify_typo_type(BRAND_KEYWORDS[k], input))

\* levenshtein_distance(s1, s2) with the input and another string.
CallLevenshteinDistance ==
    /\ input \in LevStrings
    /\ \E s2 \in LevStrings :
           Returns("levenshtein_distance", <<s2>>,
                   levenshtein_distance(input, s2))

NextEngine ==
    \/ CallCalculateScore
    \/ CallContainsBrandImpersonation
    \/ CallDetectHomoglyphs
    \/ CallDetectTyposquatting
    \/ CallIsWhitelisted
    \/ CallClassifyTypoType
    \/ CallLevenshteinDistance

SpecEngine == InitEngine /\ [][NextEngine]_vars

(***************************************************************************)
(* Properties of the engine, checked under SpecEngine                      *)
(***************************************************************************)

Returned(fn) == pc = "returned" /\ result.fn = fn

\* The number of changes calculate_score made to `score` for one signal.
AddCount(adds, signal) ==
    Cardinality({i \in 1..Len(adds) : adds[i].signal = signal})

\* The weight of a signal when Fired, else 0.
Weight(Fired, weight) == IF Fired THEN weight ELSE 0

\* C1: for every input string, the empty one included, the score that
\* calculate_score returns is an integer between 0 and 100.
C1_ScoreInRange ==
    Returned("calculate_score") => result.out.score \in 0..100

\* calculate_score has returned for the empty string.
C1_Witness ==
    Returned("calculate_score") /\ input = <<>> /\ result.out.score = 0

\* An occurrence of brand in s at position i whose left neighbour is the
\* start of s, '.' or '-', and whose right neighbour is the end of s, '.'
\* or '-'.
BoundedOccurrence(brand, s, i) ==
    /\ MatchAt(s, brand, i)
    /\ (i = 1 \/ s[i - 1] \in {".", "-"})
    /\ (i + Len(brand) = Len(s) + 1 \/ s[i + Len(brand)] \in {".", "-"})

\* C2: contains_brand_impersonation reports a brand exactly when the
\* normalized domain holds an occurrence of it bounded on the left by the
\* start, '.' or '-' and on the right by the end, '.' or '-'; no brand is
\* reported twice; 'econt' is not reported for content.example.cfd and
\* 'speedy' is reported for speedy-bg.cfd.
C2_BoundaryMatch ==
    Returned("contains_brand_impersonation") =>
        LET s == Normalize(input)
            out == result.out
        IN  /\ \A k \in 1..Len(BRAND_KEYWORDS) :
                (\E m \in 1..Len(out) : out[m] = BRAND_KEYWORDS[k])
                <=> \E i \in 1..Len(s) : BoundedOccurrence(BRAND_KEYWORDS[k], s, i)
            /\ \A m, n \in 1..Len(out) : out[m] = out[n] => m = n
            /\ input = Chars("content.example.cfd") => out = <<>>
            /\ input = Chars("speedy-bg.cfd") => out = <<Chars("speedy")>>

SignalWeights == <<
    <<"brand", 40>>, <<"homoglyph", 30>>, <<"typosquat", 25>>,
    <<"free_hosting", 25>>, <<"suspicious_tld", 20>>, <<"geo", 15>>,
    <<"transaction", 10>>, <<"multiple_hyphens", 10>>,
    <<"numeric_suffix", 10>>, <<"subdomain_stacking", 10>>,
    <<"high_entropy", 10>>, <<"bg_tld_abuse", 10>>,
    <<"direct_impersonation", 15>> >>

\* Whether the details that calculate_score returned record the signal.
Fired(d, signal) ==
    CASE signal = "brand" -> d.brand_keywords # <<>>
      [] signal = "homoglyph" -> d.homoglyphs_detected
      [] signal = "typosquat" -> d.typosquatting_detected
      [] signal = "free_hosting" -> d.free_hosting # None
      [] signal = "suspicious_tld" -> d.suspicious_tld # None
      [] signal = "geo" -> d.geo_indicators # <<>>
      [] signal = "transaction" -> d.transaction_keywords # <<>>
      [] signal = "multiple_hyphens" -> d.multiple_hyphens
      [] signal = "numeric_suffix" -> d.numeric_suffix
      [] signal = "subdomain_stacking" -> d.subdomain_stacking
      [] signal = "high_entropy" -> d.high_entropy
      [] signal = "bg_tld_abuse" -> d.bg_tld_abuse
      [] signal = "direct_impersonation" -> d.direct_impersonation

\* C4: the score is min(100, max(0, S - P)), S the sum of the weights of
\* the categories that fired and P 20 when the penalty applies; every
\* category adds its weight at most once, however many of its brands,
\* labels, keywords, suffixes or patterns match.
C4_WeightedSum ==
    Returned("calculate_score") =>
        LET d == result.out.details
            adds == result.out.adds
            S == SumSeq([k \in 1..Len(SignalWeights) |->
                            Weight(Fired(d, SignalWeights[k][1]), SignalWeights[k][2])])
            P == Weight(d.non_bg_context_penalty, 20)
        IN  /\ result.out.score = Min2(100, Max2(0, S - P))
            /\ \A k \in 1..Len(SignalWeights) :
                /\ AddCount(adds, SignalWeights[k][1]) <= 1
                /\ \A i \in 1..Len(adds) :
                       adds[i].signal = SignalWeights[k][1]
                           => adds[i].delta = SignalWeights[k][2]

\* calculate_score has returned for a domain on which several geo
\* indicators, several transaction keywords and several direct patterns
\* match.
C4_Witness ==
    /\ Returned("calculate_score")
    /\ input = Chars("bg-econt-login-verify.speedy-bg.bg-pv.cfd")
    /\ Len(SelectSeq(GEO_INDICATORS, LAMBDA g : Contains(input, g))) >= 2
    /\ Len(SelectSeq(TRANSACTION_KEYWORDS, LAMBDA k : Contains(input, k))) >= 2
    /\ result.out.details.direct_impersonation
    /\ Len(result.out.details.geo_indicators) = 1

\* C5 as claimed: the clamp is active at both ends: among the domains the
\* engine is called with, some domain's sum exceeds 100 and is returned as
\* 100, and the penalty drives some domain's score down to 0.
C5_ClampActiveAtBothEnds ==
    Returned("calculate_score") =>
        /\ \E dom \in ExampleDomains :
               calculate_score(dom).raw > 100 /\ calculate_score(dom).score = 100
        /\ \E dom \in EngineInputs :
               LET r == calculate_score(dom)
               IN  r.details.non_bg_context_penalty /\ r.score = 0

\* C5, amended: a sum above 100 is returned as 100; when the penalty
\* applies a brand-derived signal of at least 25 has fired, so the value
\* before the clamp is at least 5 and the penalty never drives the score to
\* 0; the score is never negative.
C5_ClampOnlyAbove ==
    Returned("calculate_score") =>
        LET r == result.out
        IN  /\ r.raw > 100 => r.score = 100
            /\ r.raw <= 100 => r.score = r.raw
            /\ r.details.non_bg_context_penalty => (r.raw >= 5 /\ r.score >= 5)
            /\ r.raw >= 0
            /\ r.score >= 0

\* calculate_score has returned 100 for a domain whose sum exceeds 100.
C5_Witness ==
    Returned("calculate_score") /\ result.out.raw > 100 /\ result.out.score = 100

C11_TypoTypeClassified ==
    Returned("classify_typo_type") =>
        LET original == result.brands[1]
            typo == input
            differing == {i \in 1..Min2(Len(original), Len(typo)) :
                              original[i] # typo[i]}
            mirrored == \E i \in 1..(Len(original) - 1) :
                            /\ differing = {i, i + 1}
                            /\ original[i] = typo[i + 1]
                            /\ original[i + 1] = typo[i]
        IN  result.out =
                IF Len(typo) < Len(original) THEN "missing_char"
                ELSE IF Len(typo) > Len(original) THEN "extra_char"
                ELSE IF mirrored THEN "swapped_chars"
                ELSE "substitution"

\* One insertion, deletion or substitution applied to s, within MaxLevLen.
OneEdit(s) ==
    {SubSeq(s, 1, i - 1) \o SubSeq(s, i + 1, Len(s)) : i \in 1..Len(s)}
    \cup {SubSeq(s, 1, i - 1) \o <<c>> \o SubSeq(s, i + 1, Len(s)) :
              i \in 1..Len(s), c \in LevAlphabet}
    \cup {t \in {SubSeq(s, 1, i) \o <<c>> \o SubSeq(s, i + 1, Len(s)) :
                     i \in 0..Len(s), c \in LevAlphabet} :
              Len(t) <= MaxLevLen + 1}

\* The strings that k or fewer edits make of s.
RECURSIVE EditsWithin(_, _)
EditsWithin(s, k) ==
    IF k = 0 THEN {s}
    ELSE LET fewer == EditsWithin(s, k - 1)
         IN  fewer \cup UNION {OneEdit(u) : u \in fewer}

\* The least number of edits that make t of s.
MinEdits(s, t) ==
    CHOOSE k \in 0..(Len(s) + Len(t)) :
        /\ t \in EditsWithin(s, k)
        /\ \A j \in 0..(k - 1) : t \notin EditsWithin(s, j)

\* C12: levenshtein_distance(s1, s2) is the least number of single-character
\* insertions, deletions and substitutions that make s2 of s1; it is never
\* negative, symmetric, 0 exactly for equal strings, and the length of the
\* other string when one is empty.
C12_LevenshteinIsEditDistance ==
    Returned("levenshtein_distance") =>
        LET s1 == input
            s2 == result.brands[1]
            d == result.out
        IN  /\ d = MinEdits(s1, s2)
            /\ d >= 0
            /\ d = levenshtein_distance(s2, s1)
            /\ (d = 0) <=> (s1 = s2)
            /\ s1 = <<>> => d = Len(s2)
            /\ s2 = <<>> => d = Len(s1)

\* levenshtein_distance has returned 2 for 'ab' and 'ba', which one
\* substitution cannot make equal, and 3 for 'aaa' and the empty string.
C12_Witness ==
    /\ Returned("levenshtein_distance")
    /\ \/ input = Chars("ab") /\ result.brands[1] = Chars("ba") /\ result.out = 2
       \/ input = Chars("aaa") /\ result.brands[1] = <<>> /\ result.out = 3

\* The label is a homoglyph spelling of the brand: of length 3 or more and
\* within 2 of the brand's length, and either not all ASCII with a normalized
\* form that is the brand or, from length 4, a substring of it, or holding
\* a '0' and spelling the brand once every '0' is read as 'o'.
HomoglyphSpelling(label, brand) ==
    LET normalized == [i \in 1..Len(label) |-> NormalizeChar(label[i])]
        zero_as_o == [i \in 1..Len(label) |->
                         IF label[i] = "0" THEN "o" ELSE label[i]]
    IN  /\ Len(label) >= 3
        /\ Len(label) - Len(brand) \in -2..2
        /\ \/ /\ \E i \in 1..Len(label) : ~IsAscii(label[i])
              /\ \/ normalized = brand
                 \/ Len(label) >= 4 /\ Contains(brand, normalized)
           \/ /\ "0" \in Range(label)
              /\ zero_as_o = brand

\* C13: detect_homoglyphs reports a label of the normalized domain exactly
\* when it is a homoglyph spelling of one of the brands; an ASCII label
\* without '0' is never reported; ec0nt-pay.tk against {econt} gives a hit
\* on ec0nt, and econt spelled with Cyrillic e, c, o gives a hit.
C13_HomoglyphHits ==
    Returned("detect_homoglyphs") =>
        LET labels == Split(Normalize(input), {".", "-"})
            brands == result.brands
            out == result.out
        IN  /\ \A p \in 1..Len(labels) :
                   labels[p] \in Range(out)
                   <=> \E b \in 1..Len(brands) :
                           HomoglyphSpelling(labels[p], brands[b])
            /\ Range(out) \subseteq Range(labels)
            /\ \A k \in 1..Len(out) :
                   \E i \in 1..Len(out[k]) :
                       ~IsAscii(out[k][i]) \/ out[k][i] = "0"
            /\ (input = Chars("ec0nt-pay.tk") /\ brands = <<Chars("econt")>>)
                   => Chars("ec0nt") \in Range(out)
            /\ (input = CyrillicEcont \o Chars(".cfd")
                /\ brands = <<Chars("econt")>>) => out = <<CyrillicEcont>>

\* C23: detect_homoglyphs reports every label that is a homoglyph spelling
\* of one of the brands, also when two labels of the domain both spell the
\* same brand, and the list it returns holds no entry twice.
C23_HomoglyphPairsOnce ==
    Returned("detect_homoglyphs") =>
        LET labels == Split(Normalize(input), {".", "-"})
            brands == result.brands
            out == result.out
        IN  /\ \A p \in 1..Len(labels) :
                   \A b \in 1..Len(brands) :
                       HomoglyphSpelling(labels[p], brands[b])
                           => \E k \in 1..Len(out) : out[k] = labels[p]
            /\ \A m, n \in 1..Len(out) : out[m] = out[n] => m = n

\* The spellings a direct-impersonation pattern matches: a brand followed
\* by 'bg' or '-bg', or 'bg' or 'bg-' followed by a brand.
DirectSpellings ==
    LET front == {"econt", "speedy", "bgpost", "olx", "sameday", "easypay",
                  "epay", "borica"}
        back == {"econt", "speedy", "post", "olx"}
    IN  {Chars(b) \o Chars("bg") : b \in front}
        \cup {Chars(b) \o Chars("-bg") : b \in front}
        \cup {Chars("bg") \o Chars(b) : b \in back}
        \cup {Chars("bg-") \o Chars(b) : b \in back}

\* C16: whenever the normalized domain holds a direct-impersonation
\* spelling, calculate_score adds 15 exactly once, sets
\* details.direct_impersonation, has Bulgarian context and applies no
\* penalty; for econt-bg.tk the brand, suspicious-TLD and
\* direct-impersonation signals fire, there is no penalty and the score is
\* at least 70.
C16_DirectImpersonation ==
    Returned("calculate_score") =>
        LET d == result.out.details
            adds == result.out.adds
            s == Normalize(input)
        IN  /\ (\E spelling \in DirectSpellings : Contains(s, spelling)) =>
                   /\ AddCount(adds, "direct_impersonation") = 1
                   /\ \A i \in 1..Len(adds) :
                          adds[i].signal = "direct_impersonation"
                              => adds[i].delta = 15
                   /\ d.direct_impersonation
                   /\ result.out.has_bg_context
                   /\ ~d.non_bg_context_penalty
                   /\ AddCount(adds, "penalty") = 0
            /\ input = Chars("econt-bg.tk") =>
                   /\ d.brand_keywords = <<Chars("econt")>>
                   /\ d.suspicious_tld = Chars(".tk")
                   /\ d.direct_impersonation
                   /\ ~d.non_bg_context_penalty
                   /\ result.out.score >= 70

\* calculate_score has returned for a domain that holds two direct
\* spellings (bg-econt and speedy-bg).
C16_Witness ==
    /\ Returned("calculate_score")
    /\ input = Chars("bg-econt-login-verify.speedy-bg.bg-pv.cfd")
    /\ Contains(input, Chars("bg-econt"))
    /\ Contains(input, Chars("speedy-bg"))
    /\ AddCount(result.out.adds, "direct_impersonation") = 1

\* The sum of the weights of the signals that the details record.
FiredSum(d) ==
    SumSeq([k \in 1..Len(SignalWeights) |->
               Weight(Fired(d, SignalWeights[k][1]), SignalWeights[k][2])])

\* Whether a brand-derived signal fired with no Bulgarian context and no
\* direct-impersonation match.
WeakBrandMatch(d, s) ==
    /\ \/ d.brand_keywords # <<>>
       \/ d.homoglyphs_detected
       \/ d.typosquatting_detected
    /\ d.geo_indicators = <<>>
    /\ ~d.bg_tld_abuse
    /\ ~Contains(s, Chars("bg"))
    /\ ~Contains(s, Chars("bulgaria"))
    /\ ~d.direct_impersonation

\* C17 as claimed: whenever a brand-derived signal fires with no Bulgarian
\* context and no direct-impersonation match, the penalty is applied
\* exactly once and the returned score is strictly lower than the score of
\* the same fired signals without the penalty.
C17_PenaltyStrictlyLowers ==
    (Returned("calculate_score")
         /\ WeakBrandMatch(result.out.details, Normalize(input))) =>
        /\ AddCount(result.out.adds, "penalty") = 1
        /\ result.out.score
               < Min2(100, Max2(0, FiredSum(result.out.details)))

\* C17: whenever a brand-derived signal fires with no Bulgarian context and
\* no direct-impersonation match, the penalty of 20 is applied exactly
\* once, the returned score is min(100, S - 20) for the sum S of the fired
\* signals' weights, and it is strictly lower than the unpenalised score
\* min(100, S) exactly when S is below 120; yandex.speedyz.top scores
\* strictly lower.
C17_PenaltyLowersBelowCap ==
    (Returned("calculate_score")
         /\ WeakBrandMatch(result.out.details, Normalize(input))) =>
        LET adds == result.out.adds
            S == FiredSum(result.out.details)
            unpenalised == Min2(100, Max2(0, S))
        IN  /\ AddCount(adds, "penalty") = 1
            /\ \A i \in 1..Len(adds) :
                   adds[i].signal = "penalty" => adds[i].delta = -20
            /\ result.out.score = Min2(100, S - 20)
            /\ result.out.score < unpenalised <=> S < 120
            /\ result.out.score <= unpenalised
            /\ input = Chars("yandex.speedyz.top") =>
                   result.out.score < unpenalised

\* calculate_score has penalised a domain whose signals sum to 120 or more
\* and returned 100 for it.
C17_Witness ==
    /\ Returned("calculate_score")
    /\ input = Chars("econt.ec0nt-login-1234.x.web.app")
    /\ WeakBrandMatch(result.out.details, Normalize(input))
    /\ result.out.details.non_bg_context_penalty
    /\ FiredSum(result.out.details) >= 120
    /\ result.out.score = 100

\* The characters that some HOMOGLYPH_MAP entry lists.
ListedHomoglyphs ==
    UNION {Range(HOMOGLYPH_MAP[k][2]) : k \in 1..Len(HOMOGLYPH_MAP)}

\* C15: for every input string, the empty one, one starting with '*' and
\* non-ASCII ones included, each of calculate_score,
\* contains_brand_impersonation, detect_homoglyphs, detect_typosquatting and
\* is_whitelisted returns a result of its type; and normalize_homoglyphs
\* keeps the length of its argument and every character that HOMOGLYPH_MAP
\* does not list.
C15_EngineTotal ==
    /\ (mode = "engine" /\ pc = "call") =>
           LET normalized == normalize_homoglyphs(input)
           IN  /\ Len(normalized) = Len(input)
               /\ \A i \in 1..Len(input) :
                      input[i] \notin ListedHomoglyphs
                          => normalized[i] = input[i]
    /\ Returned("calculate_score") =>
           /\ result.out.score \in 0..100
           /\ result.out.details.brand_keywords \in Seq(Range(BRAND_KEYWORDS))
           /\ result.out.details.homoglyphs_detected \in BOOLEAN
           /\ result.out.details.typosquatting_detected \in BOOLEAN
    /\ Returned("contains_brand_impersonation") =>
           result.out \in Seq(Range(BRAND_KEYWORDS))
    /\ Returned("detect_homoglyphs") =>
           \A k \in 1..Len(result.out) : Len(result.out[k]) >= 3
    /\ Returned("detect_typosquatting") =>
           \A k \in 1..Len(result.out) : result.out[k].distance \in 1..2
    /\ Returned("is_whitelisted") => result.out \in BOOLEAN

\* calculate_score has returned for three non-ASCII characters that
\* HOMOGLYPH_MAP does not list, for the empty string and for '*'.
C15_Witness ==
    /\ Returned("calculate_score")
    /\ input \in {<<"U0436", "U4E2D", "U00DF">>, <<>>, Chars("*")}
    /\ result.out.score = 0

(***************************************************************************)
(* The scan: scan_domains and the feed                                      *)
(***************************************************************************)

\* The most elements of all_domains one scan draws.
MaxVisited == 2

\* The contents of MANUAL_CHECK_DOMAINS an operator may have written: empty
\* as shipped, clean entries, entries in upper case or padded with blanks,
\* a subdomain of a legitimate domain, an infrastructure host.
ManualLists == {
    <<>>,
    <<Chars("econt-bg.com")>>,
    <<Chars("Econt-BG.com")>>,
    <<Chars(" econt-bg.com "), Chars("track.econt.bg")>>,
    <<Chars("econt-bg.s3.amazonaws.com")>> }

\* page.domain values the URLScan.io searches may return, as received.
URLScanDomains == {
    Chars("econt-bg.tk"), Chars(" econt-bg.tk"), Chars("speedy.bg-pv.cfd"),
    Chars("S3.AmazonAWS.com.econt-bg.tk"), Chars("econt.bg"),
    Chars("Shop.Econt.BG"), Chars("econt-bg.com"),
    Chars("gomarketplacecontent.cfd"), Chars("spedy.top"),
    Chars("login-box.tk"), Chars("ECONT-BG.TK"), Chars(" "),
    Chars("*.econt-bg.tk"), Chars("econt.tk"), Chars("ec0nt-bg.tk"),
    Chars("www.myspeedy.bg") }

\* The duration argument: None when not given, else <<seconds>>; 0 and a
\* positive number of seconds.
Durations == {None, <<0>>, <<300>>}

\* `if duration:`
Truthy(d) == d # None /\ d[1] # 0

\* check_manual_domains(): the entries stripped and lower-cased, the empty
\* ones dropped.
check_manual_domains(manual_list) ==
    {Lower(Strip(manual_list[i])) : i \in 1..Len(manual_list)} \ {<<>>}

\* Every str a scan of the model can pass to calculate_score.
ScanStrings ==
    {Strip(raw) : raw \in URLScanDomains \cup
                          UNION {check_manual_domains(m) : m \in ManualLists}}
    \cup {Chars("econt-bg.tk"), Chars("econt-bg.com"),
          Chars("econt-bg.s3.amazonaws.com"), <<>>}

\* calculate_score on the strs of a scan, computed once.
ScoreTable == {<<domain, calculate_score(domain)>> : domain \in ScanStrings}

\* score, details = calculate_score(domain)
ScoreOf(domain) == (CHOOSE row \in ScoreTable : row[1] = domain)[2]

\* A feed entry as add_to_feed builds it.
FeedEntry(domain, score, details, detected_at, source) ==
    [domain |-> domain, score |-> score, details |-> details,
     detected_at |-> detected_at, source |-> source]

\* The feed file when the scan starts: empty as main creates it, or holding
\* an entry left by an earlier run, whose scorer gave the domain a score and
\* details that differ from this run's.
InitialFeeds == {
    <<>>,
    <<FeedEntry(Chars("econt-bg.tk"), 75,
                [brand_keywords |-> <<Chars("econt")>>], "earlier", "scanner")>> }

\* add_to_feed without the loop that looks for the domain.
add_to_feedNoLookup(feed_data, domain, score, details, source) ==
    Append(feed_data, FeedEntry(domain, score, details, "now", source))

\* add_to_feed: the feed file after the call.
add_to_feed(feed_data, domain, score, details, source) ==
    IF \E i \in 1..Len(feed_data) : feed_data[i].domain = domain
    THEN feed_data
    ELSE Append(feed_data, FeedEntry(domain, score, details, "now", source))

\* save_run_stats: the stats file after the call (the timestamps left out).
save_run_stats(domains_processed, new_findings) ==
    [domains_processed |-> domains_processed, new_findings |-> new_findings]

\* all_domains: the manual domains, and the URLScan.io results.
all_domains == check_manual_domains(manual) \cup URLScanDomains

\* FILTER 3 with the manual test inverted.
PassesSuffixFilterInverted(domain, manual_list) ==
    \/ domain \notin Range(manual_list)
    \/ \E k \in 1..Len(TARGET_SUFFIXES) : EndsWith(domain, TARGET_SUFFIXES[k])

\* FILTER 3 lets the domain through.
PassesSuffixFilter(domain, manual_list) ==
    \/ domain \in Range(manual_list)
    \/ \E k \in 1..Len(TARGET_SUFFIXES) : EndsWith(domain, TARGET_SUFFIXES[k])

\* The relevance test after scoring lets the domain through.
HasIndicators(domain, has_courier, score) ==
    \/ has_courier
    \/ \E k \in 1..Len(TRANSACTION_KEYWORDS) :
           Contains(Lower(domain), TRANSACTION_KEYWORDS[k])
    \/ score >= 60

\* The values of --check-domain: a phishing name, a whitelisted name in
\* upper case and padded, a name without a tracked suffix, an
\* infrastructure host, blanks only, and the empty str.
CheckDomainArgs == {
    Chars("econt-bg.tk"), Chars(" Econt.BG "), Chars("ECONT-BG.COM"),
    Chars("econt-bg.s3.amazonaws.com"), Chars("  "), <<>> }

\* scan_domains is about to run its loop, or main() has parsed its
\* arguments.
Init ==
    /\ \/ /\ mode = "scan"
          /\ pc = "loop"
          /\ input = None
       \/ /\ mode = "main"
          /\ pc = "start"
          /\ input \in {None} \cup {<<arg>> : arg \in CheckDomainArgs}
    /\ result = None
    /\ manual \in ManualLists
    /\ duration \in Durations
    /\ duration # None => manual = <<>>  \* time-limited scans: the list as shipped
    /\ mode = "main" => (manual = <<>> /\ duration = None)
    /\ expired = FALSE
    /\ visited = {}
    /\ processed_domains = {}
    /\ findings_count = 0
    /\ feed \in InitialFeeds
    /\ stats = None
    /\ scored = {}
    /\ score_calls = 0
    /\ added = <<>>
    /\ suspicious = {}
    /\ NoFetch
    /\ NoAnalyzer

\* `if args.check_domain:`
GivenCheckDomain(check_domain) ==
    IF check_domain = None THEN FALSE ELSE check_domain[1] # <<>>

\* main() with --check-domain given and not empty (lines 1007-1037): the
\* domain is reported as whitelisted, or scored and reported; main returns.
MainCheckDomain ==
    /\ mode = "main"
    /\ pc = "start"
    /\ GivenCheckDomain(input)
    /\ LET domain == Lower(Strip(input[1]))
       IN  IF is_whitelisted(domain)
           THEN result' = [domain |-> domain, whitelisted |-> TRUE,
                           scoring |-> None]
           ELSE \E scoring \in {ScoreOf(domain)} :
                    result' = [domain |-> domain, whitelisted |-> FALSE,
                               scoring |-> scoring]
    /\ pc' = "done"
    /\ UNCHANGED <<mode, input, manual, duration, expired, visited,
                   processed_domains, findings_count, feed, stats, scored,
                   score_calls, added, suspicious>>
    /\ UNCHANGED <<fetchVars, llmVars>>

\* main() when `if args.check_domain:` is false (lines 1039-1047): the feed
\* file is created empty if it does not exist and scan_domains is called.
MainScan ==
    /\ mode = "main"
    /\ pc = "start"
    /\ ~GivenCheckDomain(input)
    /\ mode' = "scan"
    /\ pc' = "loop"
    /\ UNCHANGED <<input, result, manual, duration, expired, visited,
                   processed_domains, findings_count, feed, stats, scored,
                   score_calls, added, suspicious>>
    /\ UNCHANGED <<fetchVars, llmVars>>

\* The wall clock passes start_time + duration.
TimePasses ==
    /\ mode = "scan"
    /\ pc = "loop"
    /\ duration # None
    /\ ~expired
    /\ expired' = TRUE
    /\ UNCHANGED <<mode, pc, input, result, manual, duration, visited,
                   processed_domains, findings_count, feed, stats, scored,
                   score_calls, added, suspicious>>
    /\ UNCHANGED <<fetchVars, llmVars>>

\* The admission test of line 898 with the test for '*' left out.
SkipsCandidateEmptyOnly(domain, processed) ==
    \/ domain = <<>>
    \/ domain \in processed

\* `if not domain or domain.startswith('*') or domain in processed_domains`
SkipsCandidate(domain, processed) ==
    \/ domain = <<>>
    \/ StartsWith(domain, <<"*">>)
    \/ domain \in processed

\* One iteration of `for domain in all_domains`, on the element raw.
ScanIteration(raw) ==
    /\ mode = "scan"
    /\ pc = "loop"
    /\ raw \in all_domains \ visited
    /\ Cardinality(visited) < MaxVisited
    /\ ~(Truthy(duration) /\ expired)
    /\ visited' = visited \cup {raw}
    /\ LET domain == Strip(raw)
       IN  IF SkipsCandidate(domain, processed_domains)
           THEN UNCHANGED <<processed_domains, findings_count, feed, scored,
                            score_calls, added, suspicious>>
           ELSE /\ processed_domains' = processed_domains \cup {domain}
                /\ IF \/ is_infrastructure_domain(domain)
                      \/ is_whitelisted(domain)
                      \/ ~PassesSuffixFilter(domain, manual)
                   THEN UNCHANGED <<findings_count, feed, scored, score_calls,
                                    added, suspicious>>
                   ELSE \E scoring \in {ScoreOf(domain)} :
                        LET has_courier == contains_courier_keyword(domain) # <<>>
                            score == scoring.score
                            details == scoring.details
                        IN  /\ scored' = scored \cup {domain}
                            /\ score_calls' = score_calls + 1
                            /\ suspicious' =
                                   IF HasIndicators(domain, has_courier, score)
                                   THEN suspicious \cup {domain}
                                   ELSE suspicious
                            /\ IF /\ HasIndicators(domain, has_courier, score)
                                  /\ score >= SCORE_THRESHOLD
                               THEN /\ findings_count' = findings_count + 1
                                    /\ feed' = add_to_feed(feed, domain, score,
                                                           details, "scanner")
                                    /\ added' = IF feed' # feed
                                                THEN Append(added, domain)
                                                ELSE added
                               ELSE UNCHANGED <<findings_count, feed, added>>
    /\ UNCHANGED <<mode, pc, input, result, manual, duration, expired, stats>>
    /\ UNCHANGED <<fetchVars, llmVars>>

\* The duration check at the head of an iteration breaks out of the loop;
\* the statistics are saved.
DurationLimit ==
    /\ mode = "scan"
    /\ pc = "loop"
    /\ all_domains \ visited # {}
    /\ Truthy(duration)
    /\ expired
    /\ stats' = save_run_stats(Cardinality(processed_domains), findings_count)
    /\ pc' = "done"
    /\ UNCHANGED <<mode, input, result, manual, duration, expired, visited,
                   processed_domains, findings_count, feed, scored, score_calls,
                   added, suspicious>>
    /\ UNCHANGED <<fetchVars, llmVars>>

\* all_domains is exhausted (the URLScan.io results were the ones drawn);
\* the statistics are saved.
ScanComplete ==
    /\ mode = "scan"
    /\ pc = "loop"
    /\ check_manual_domains(manual) \subseteq visited
    /\ stats' = save_run_stats(Cardinality(processed_domains), findings_count)
    /\ pc' = "done"
    /\ UNCHANGED <<mode, input, result, manual, duration, expired, visited,
                   processed_domains, findings_count, feed, scored, score_calls,
                   added, suspicious>>
    /\ UNCHANGED <<fetchVars, llmVars>>

Next ==
    \/ MainCheckDomain
    \/ MainScan
    \/ TimePasses
    \/ \E raw \in URLScanDomains \cup check_manual_domains(manual) :
           ScanIteration(raw)
    \/ DurationLimit
    \/ ScanComplete

Spec == Init /\ [][Next]_vars


(***************************************************************************)
(* Properties of the scan, checked under Spec                               *)
(***************************************************************************)

\* The labels of a name: its parts between the dots.
Labels(name) == Split(name, {"."})

\* The sequence a ends the sequence b.
IsSuffixSeq(a, b) ==
    /\ Len(a) <= Len(b)
    /\ SubSeq(b, Len(b) - Len(a) + 1, Len(b)) = a

\* The domain, lower-cased and without one leading 'www.' label, is a
\* whitelist entry or a name under one.
WhitelistMatch(domain) ==
    LET labels == Labels(Lower(domain))
        name == IF Len(labels) > 1 /\ Head(labels) = Chars("www")
                THEN Tail(labels) ELSE labels
    IN  \E k \in 1..Len(WHITELISTED_DOMAINS) :
            IsSuffixSeq(Labels(WHITELISTED_DOMAINS[k]), name)

\* C6: is_whitelisted(domain) is true exactly when the normalized domain
\* (lower-cased, one leading 'www.' removed) equals a whitelist entry or ends
\* with '.' followed by one; and no such domain is ever passed to
\* calculate_score or appended to the feed by the scan.
C6_WhitelistedNeverScored ==
    /\ \A raw \in visited :
           is_whitelisted(Strip(raw)) <=> WhitelistMatch(Strip(raw))
    /\ \A domain \in scored \cup Range(added) :
           ~is_whitelisted(domain) /\ ~WhitelistMatch(domain)

\* The scan has handled track.econt.bg, a name under a whitelist entry that
\* the manual list exempts from the suffix filter, and did not score it; and
\* it has handled a name that only resembles one, www.myspeedy.bg.
C6_Witness ==
    /\ Chars("track.econt.bg") \in Range(manual)
    /\ Chars("track.econt.bg") \in processed_domains
    /\ Chars("track.econt.bg") \notin scored
    /\ Chars("www.myspeedy.bg") \in processed_domains

\* C7: no str whose lower-cased form contains an infrastructure pattern is
\* passed to calculate_score or appended to the feed by the scan, in the
\* manual list or not, whatever it would score.
C7_InfrastructureNeverScored ==
    \A domain \in scored \cup Range(added) :
        \A k \in 1..Len(INFRASTRUCTURE_PATTERNS) :
            ~Contains(Lower(domain), INFRASTRUCTURE_PATTERNS[k])

\* The scan has handled econt-bg.s3.amazonaws.com from the manual list,
\* which calculate_score gives the threshold score, and did not score it.
C7_Witness ==
    /\ Chars("econt-bg.s3.amazonaws.com") \in Range(manual)
    /\ Chars("econt-bg.s3.amazonaws.com") \in processed_domains
    /\ ScoreOf(Chars("econt-bg.s3.amazonaws.com")).score >= SCORE_THRESHOLD
    /\ Chars("econt-bg.s3.amazonaws.com") \notin scored

\* C8: every str the scan passed to calculate_score or appended to the feed
\* that is not an element of MANUAL_CHECK_DOMAINS ends with a suspicious TLD
\* or a free-hosting suffix.
C8_NonManualNeedsSuffix ==
    \A domain \in scored \cup Range(added) :
        domain \notin Range(manual) =>
            \/ \E k \in 1..Len(SUSPICIOUS_TLDS) :
                   EndsWith(domain, SUSPICIOUS_TLDS[k])
            \/ \E k \in 1..Len(FREE_HOSTING_SUFFIXES) :
                   EndsWith(domain, FREE_HOSTING_SUFFIXES[k])

\* With an empty manual list the scan has scored econt-bg.tk and has handled
\* econt-bg.com without scoring it.
C8_Witness ==
    /\ manual = <<>>
    /\ Chars("econt-bg.tk") \in scored
    /\ Chars("econt-bg.com") \in processed_domains
    /\ Chars("econt-bg.com") \notin scored

\* C9: every domain check_manual_domains collects from MANUAL_CHECK_DOMAINS
\* is exempt from the suffix filter: once the scan has handled it, it has
\* been scored unless it is infrastructure or whitelisted, whatever the
\* letter case or the surrounding whitespace of the entry.
C9_ManualEntriesExempt ==
    \A domain \in check_manual_domains(manual) :
        (/\ domain \in processed_domains
         /\ ~is_infrastructure_domain(domain)
         /\ ~is_whitelisted(domain))
        => domain \in scored

\* C18: a scored domain is dropped by the relevance test (not logged as
\* suspicious output) exactly when it has no brand, homoglyph or typosquat
\* signal, holds no transaction keyword and scores below 60; so a domain on
\* which a homoglyph or typosquat signal fired is not dropped, and no
\* domain scoring 70 or more is.
C18_RelevanceGate ==
    \A domain \in scored :
        LET scoring == ScoreOf(domain)
            d == scoring.details
            no_signal ==
                /\ d.brand_keywords = <<>>
                /\ ~d.homoglyphs_detected
                /\ ~d.typosquatting_detected
        IN  /\ domain \notin suspicious
                <=> /\ no_signal
                    /\ d.transaction_keywords = <<>>
                    /\ scoring.score < 60
            /\ (d.homoglyphs_detected \/ d.typosquatting_detected)
                   => domain \in suspicious
            /\ scoring.score >= SCORE_THRESHOLD => domain \in suspicious

\* The number of entries of the feed for the domain.
EntriesFor(feed_data, domain) ==
    Cardinality({i \in 1..Len(feed_data) : feed_data[i].domain = domain})

\* A step in which scan_domains calls add_to_feed (it does so right after
\* counting the finding), and what the call may do to the feed file.
AddToFeedStep ==
    IF findings_count' # findings_count
    THEN \E domain \in scored' \ scored :
            IF EntriesFor(feed, domain) > 0
            THEN feed' = feed
            ELSE /\ Len(feed') = Len(feed) + 1
                 /\ SubSeq(feed', 1, Len(feed)) = feed
                 /\ feed'[Len(feed')].domain = domain
    ELSE feed' = feed

C20_DurationBudget ==
    /\ [][(duration # None /\ expired) =>
              /\ processed_domains' = processed_domains
              /\ scored' = scored
              /\ feed' = feed]_vars
    /\ [](pc = "done" => stats # None)

\* The single-domain check has returned.
Checked == mode = "main" /\ pc = "done"

\* C21: when --check-domain is given, calculate_score is called exactly
\* when the domain, stripped and lower-cased, is not whitelisted; a domain
\* that is not whitelisted gets the score and details of calculate_score
\* whatever its suffix and whether or not it holds an infrastructure
\* pattern; a whitelisted one is reported as whitelisted; and neither the
\* feed nor the statistics file is written.
C21_CheckDomainMode ==
    (mode \in {"main", "scan"} /\ input # None /\ pc # "start") =>
        LET domain == Lower(Strip(input[1]))
        IN  /\ Checked
            /\ result.domain = domain
            /\ result.whitelisted <=> WhitelistMatch(domain)
            /\ result.scoring # None <=> ~WhitelistMatch(domain)
            /\ ~result.whitelisted =>
                   /\ result.scoring.score = calculate_score(domain).score
                   /\ result.scoring.details = calculate_score(domain).details
            /\ stats = None
            /\ added = <<>>
            /\ scored = {}
            /\ processed_domains = {}

\* The stripped candidates among the raw ones that are neither empty nor
\* start with '*'.
Admissible(raws) ==
    {Strip(raw) : raw \in raws} \ {d \in {Strip(raw) : raw \in raws} :
                                      d = <<>> \/ Head(d) = "*"}

\* C22: a candidate that is empty once stripped or that starts with '*' is
\* never counted as processed, scored or added to the feed; each stripped
\* domain is scored at most once in a scan; and the domains_processed
\* written at the end is the number of distinct non-empty, non-wildcard
\* stripped candidates the loop visited.
C22_NoiseRejected ==
    /\ \A domain \in processed_domains \cup scored \cup Range(added) :
           domain # <<>> /\ Head(domain) # "*"
    /\ processed_domains = Admissible(visited)
    /\ score_calls = Cardinality(scored)
    /\ scored \subseteq processed_domains
    /\ (mode = "scan" /\ pc = "done") =>
           stats.domains_processed = Cardinality(Admissible(visited))

\* A scan has ended after visiting the wildcard candidate, which it
\* rejected, and econt-bg.tk with a leading blank, which it scored.
C22_Witness ==
    /\ mode = "scan"
    /\ pc = "done"
    /\ visited = {Chars("*.econt-bg.tk"), Chars(" econt-bg.tk")}
    /\ scored = {Chars("econt-bg.tk")}
    /\ stats.domains_processed = 1

\* C26: at the end of a scan the new_findings written to the run
\* statistics is the number of entries the scan appended to the feed.
C26_NewFindingsAreAppended ==
    (mode = "scan" /\ pc = "done") => stats.new_findings = Len(added)

\* C27: the suffix filter of the scan and the suffix detection of
\* calculate_score agree on every candidate that does not come from the
\* manual list, whatever its letter case: such a candidate that is neither
\* whitelisted nor an infrastructure host passes the filter (and is scored)
\* exactly when calculate_score records a suspicious TLD or a free-hosting
\* suffix for it.
C27_SuffixGateAgrees ==
    \A domain \in processed_domains :
        (/\ domain \notin Range(manual)
         /\ domain \notin check_manual_domains(manual)
         /\ ~is_whitelisted(domain)
         /\ ~is_infrastructure_domain(domain)) =>
            LET d == ScoreOf(domain).details
            IN  domain \in scored
                    <=> (d.suspicious_tld # None \/ d.free_hosting # None)

(***************************************************************************)
(* fetch_urlscan_targeted: the queries to URLScan.io                       *)
(***************************************************************************)

\* The number of queries the loop runs (search_queries[:40]).
NumQueries == 3

\* The page.domain values of the results of a 200 response; a result without
\* a domain gives ''.
ResultLists == {
    <<>>,
    <<Chars("econt-bg.tk")>>,
    <<Chars("econt-bg.tk"), <<>>, Chars("spedy.top")>> }

\* What requests.get does for one query: a response with a status code, or
\* an exception (timeout, connection error).
QueryResponses ==
    {[kind |-> "response", status |-> 200, domains |-> ds] : ds \in ResultLists}
    \cup {[kind |-> "response", status |-> 429, domains |-> <<>>],
          [kind |-> "response", status |-> 500, domains |-> <<>>],
          [kind |-> "exception", status |-> 0, domains |-> <<>>]}

InitFetch ==
    /\ mode = "fetch"
    /\ pc = "start"
    /\ input = None
    /\ result = None
    /\ manual = <<>>
    /\ duration = None
    /\ expired = FALSE
    /\ visited = {}
    /\ processed_domains = {}
    /\ findings_count = 0
    /\ feed = <<>>
    /\ stats = None
    /\ scored = {}
    /\ score_calls = 0
    /\ added = <<>>
    /\ suspicious = {}
    /\ api_key \in BOOLEAN
    /\ query = 0
    /\ responses = <<>>
    /\ seen_domains = {}
    /\ NoAnalyzer

\* Lines 711-713 and the loop's start: without an API key the function
\* returns the empty set.
FetchStart ==
    /\ mode = "fetch"
    /\ pc = "start"
    /\ IF api_key
       THEN pc' = "queries" /\ query' = 1
       ELSE pc' = "returned" /\ query' = query
    /\ UNCHANGED <<mode, input, result, manual, duration, expired, visited,
                   processed_domains, findings_count, feed, stats, scored,
                   score_calls, added, suspicious, api_key, responses,
                   seen_domains, llmVars>>

\* One iteration of `for query in search_queries[:40]` (lines 767-799): the
\* request, what the status code leads to, the sleep, and on to the next
\* query.
FetchQuery(response) ==
    /\ mode = "fetch"
    /\ pc = "queries"
    /\ query <= NumQueries
    /\ responses' = Append(responses, <<response>>)
    /\ seen_domains' =
           IF response.kind = "response" /\ response.status = 200
           THEN seen_domains \cup (Range(response.domains) \ {<<>>})
           ELSE seen_domains
    /\ query' = query + 1
    /\ UNCHANGED <<mode, pc, input, result, manual, duration, expired, visited,
                   processed_domains, findings_count, feed, stats, scored,
                   score_calls, added, suspicious, api_key, llmVars>>

\* The loop is over: `return seen_domains`.
FetchReturn ==
    /\ mode = "fetch"
    /\ pc = "queries"
    /\ query > NumQueries
    /\ pc' = "returned"
    /\ UNCHANGED <<mode, input, result, manual, duration, expired, visited,
                   processed_domains, findings_count, feed, stats, scored,
                   score_calls, added, suspicious, fetchVars, llmVars>>

NextFetch ==
    \/ FetchStart
    \/ \E response \in QueryResponses : FetchQuery(response)
    \/ FetchReturn

SpecFetch == InitFetch /\ [][NextFetch]_vars

\* C25: a query answered with HTTP 429 is sent again after the wait, so
\* that when the loop leaves a query behind the last thing the query
\* received is a response other than 429, or an exception; a rate-limit
\* response alone never ends a query.
C25_RateLimitRetried ==
    mode = "fetch" =>
        \A q \in 1..Len(responses) :
            LET last == responses[q][Len(responses[q])]
            IN  ~(last.kind = "response" /\ last.status = 429)

(***************************************************************************)
(* llm_analyzer.py: runs of main() on the feed and the analysis file       *)
(***************************************************************************)

\* The number of runs of main() the model follows.
MaxRuns == 3

\* --min-score and --max-analyze as the runs pass them: the defaults, and
\* one domain per run.
min_score == 70

MaxAnalyzeArgs == {1, 100}

\* OpenRouterAnalyzer.max_requests
max_requests == 200

\* The feed the runs read: three recent entries at or above --min-score,
\* two of them with the same score, one below it, and one detected before
\* the lookback window.
AnalyzerFeed == <<
    FeedEntry(Chars("ec0nt-bg.tk"), 90, [brand_keywords |-> <<>>],
              "now", "scanner"),
    FeedEntry(Chars("econt-bg.tk"), 90, [brand_keywords |-> <<Chars("econt")>>],
              "now", "scanner"),
    FeedEntry(Chars("spedy.top"), 25, [brand_keywords |-> <<>>],
              "now", "scanner"),
    FeedEntry(Chars("speedy.bg-pv.cfd"), 95, [brand_keywords |-> <<Chars("speedy")>>],
              "now", "scanner"),
    FeedEntry(Chars("olx-bg.cfd"), 80, [brand_keywords |-> <<Chars("olx")>>],
              "old", "scanner") >>

\* load_existing_analysis: the domains of the output file, [] without one.
load_existing_analysis(file) == IF file = None THEN <<>> ELSE file

\* filter_domains_for_analysis: the entries not yet analyzed, at or above
\* the minimum score and not detected before the cutoff.
filter_domains_for_analysis(feed_data, minimum, already_analyzed) ==
    SelectSeq(feed_data, LAMBDA entry :
        /\ entry.domain \notin Range(already_analyzed)
        /\ entry.score >= minimum
        /\ entry.detected_at # "old")

\* entry put into a list sorted by score, highest first, behind the entries
\* of the same score.
InsertByScore(sorted_list, entry) ==
    LET before == SelectSeq(sorted_list, LAMBDA e : e.score >= entry.score)
        after == SelectSeq(sorted_list, LAMBDA e : e.score < entry.score)
    IN  before \o <<entry>> \o after

\* sorted(to_analyze, key=score, reverse=True), a stable sort
RECURSIVE SortByScore(_)
SortByScore(entries) ==
    IF entries = <<>>
    THEN <<>>
    ELSE InsertByScore(SortByScore(SubSeq(entries, 1, Len(entries) - 1)),
                       entries[Len(entries)])

\* seq[:n]
Take(seq, n) == SubSeq(seq, 1, IF n < Len(seq) THEN n ELSE Len(seq))

InitAnalyzer ==
    /\ mode = "llm"
    /\ pc = "idle"
    /\ input = None
    /\ result = None
    /\ manual = <<>>
    /\ duration = None
    /\ expired = FALSE
    /\ visited = {}
    /\ processed_domains = {}
    /\ findings_count = 0
    /\ feed = AnalyzerFeed
    /\ stats = None
    /\ scored = {}
    /\ score_calls = 0
    /\ added = <<>>
    /\ suspicious = {}
    /\ NoFetch
    /\ NoAnalyzer

\* main() up to its loop (lines 344-392): the feed and the analyzed domains
\* are loaded, the entries filtered, sorted and limited; with nothing to
\* analyze main returns.
AnalyzerStart(max_analyze) ==
    /\ mode = "llm"
    /\ pc = "idle"
    /\ runs < MaxRuns
    /\ runs' = runs + 1
    /\ LET already_analyzed == load_existing_analysis(analysis_file)
           to_analyze ==
               Take(SortByScore(filter_domains_for_analysis(
                        feed, min_score, already_analyzed)), max_analyze)
       IN  IF to_analyze = <<>>
           THEN UNCHANGED <<pc, llm>>
           ELSE /\ pc' = "analyze"
                /\ llm' = [already_analyzed |-> already_analyzed,
                           to_analyze |-> to_analyze,
                           i |-> 1,
                           analyzed_domains |-> <<>>,
                           requests_made |-> 0]
    /\ UNCHANGED <<mode, input, result, manual, duration, expired, visited,
                   processed_domains, findings_count, feed, stats, scored,
                   score_calls, added, suspicious, fetchVars, analysis_file,
                   saved_earlier>>

\* One iteration of `for i, entry in enumerate(to_analyze, 1)` (lines
\* 409-461): analyze_domain returns an analysis (answered) or None.
AnalyzeEntry(answered) ==
    /\ mode = "llm"
    /\ pc = "analyze"
    /\ llm.i <= Len(llm.to_analyze)
    /\ LET entry == llm.to_analyze[llm.i]
           analysis == llm.requests_made < max_requests /\ answered
       IN  llm' = [llm EXCEPT
                      !.i = @ + 1,
                      !.requests_made = IF analysis THEN @ + 1 ELSE @,
                      !.analyzed_domains =
                          IF analysis THEN Append(@, entry.domain) ELSE @]
    /\ UNCHANGED <<mode, pc, input, result, manual, duration, expired, visited,
                   processed_domains, findings_count, feed, stats, scored,
                   score_calls, added, suspicious, fetchVars, analysis_file,
                   saved_earlier, runs>>

\* The end of main() (lines 464-470): save_llm_analysis writes the domains
\* analyzed in this run to the output file, when there are any.
AnalyzerSave ==
    /\ mode = "llm"
    /\ pc = "analyze"
    /\ llm.i > Len(llm.to_analyze)
    /\ IF llm.analyzed_domains # <<>>
       THEN /\ analysis_file' = llm.analyzed_domains
            /\ saved_earlier' = saved_earlier \cup Range(llm.analyzed_domains)
       ELSE UNCHANGED <<analysis_file, saved_earlier>>
    /\ llm' = None
    /\ pc' = "idle"
    /\ UNCHANGED <<mode, input, result, manual, duration, expired, visited,
                   processed_domains, findings_count, feed, stats, scored,
                   score_calls, added, suspicious, fetchVars, runs>>

NextAnalyzer ==
    \/ \E max_analyze \in MaxAnalyzeArgs : AnalyzerStart(max_analyze)
    \/ \E answered \in BOOLEAN : AnalyzeEntry(answered)
    \/ AnalyzerSave

SpecAnalyzer == InitAnalyzer /\ [][NextAnalyzer]_vars

\* C24: over any sequence of runs on the same feed and output file, the
\* analyzed domains a run reads at its start contain every domain that an
\* earlier run analyzed and saved, and no such domain is among the entries
\* the run sends to the LLM.
C24_NeverAnalyzedAgain ==
    (mode = "llm" /\ pc = "analyze") =>
        /\ saved_earlier \subseteq Range(llm.already_analyzed)
        /\ \A k \in 1..Len(llm.to_analyze) :
               llm.to_analyze[k].domain \notin saved_earlier

=============================================================================
